---- MODULE Spec2Model ----
(***************************************************************************)
(* Target provisioning of vegeta: the Target model, the JSON, HTTP-text    *)
(* and static round-robin targeters, the peeking scanner and               *)
(* ReadAllTargets, as state machines over a shared decoder and a set of    *)
(* concurrent callers.                                                     *)
(*                                                                         *)
(* Strings and byte slices are sequences of one-character strings, so     *)
(* that trimming, splitting and pattern matching are computed.  A header   *)
(* mapping (http.Header) is a function from its keys to value lists; a nil *)
(* mapping and an empty mapping both have no key.                          *)
(***************************************************************************)
EXTENDS Integers, Sequences, FiniteSets, TLC

\* ------------------------------------------------------------------ bounds
MaxLines == 3       \* lines of a stream source
MaxList == 2        \* length of the static targeter's list
MaxCalls == 4       \* Next calls made on the static targeter
NumCallers == 2     \* concurrent callers of Next
MaxSpare == 1       \* spare capacity of a default header's value slice
MaxBlockLines == 5  \* lines of a source made of blocks with header sections
MaxNil == 1         \* Next calls made with a nil Target
MaxEncoded == 2     \* targets written by one TargetEncoder
MaxAgain == 1       \* times a caller goes on calling Next after ErrNoTargets

Callers == 1..NumCallers

VARIABLES
    kind,    \* what is under test: a provider ("json", "http", "static"), the
             \* "scanner", or a function ("equal", "roundtrip", "group")
    driver,  \* who calls: "workers" (concurrent callers of Next), "readall",
             \* "scanner" or "function"
    src,     \* the source: HTTP-text line tokens, or JSON lines
    nl,      \* JSON source: whether the final line ends with '\n'
    ioerr,   \* whether the byte source ends with a read error instead of EOF
    body,    \* provider-level default body
    hdr,     \* provider-level default header
    tgts,    \* staticTargeter.tgts
    sc,      \* httpTargeter.sc (peekingScanner over bufio.Scanner)
    mu,      \* httpTargeter.mu / jsonTargeter.lock: holder, or 0
    rpos,    \* jsonTargeter.reader: number of lines read so far
    i,       \* staticTargeter.i
    pc,      \* per caller: position inside Next
    loc,     \* per caller: locals of the running call
    slot,    \* per caller: the Target the caller passes to Next
    fin,     \* callers that stopped: they saw ErrNoTargets or a read error
    hist,    \* per caller: the results of its Next calls, in order
    ra,      \* the ReadAllTargets activation
    plog,    \* scanner protocol: the lines Text returned, what the last Peek
             \* returned (peek), whether the source had a line for it (avail)
             \* and how many lines Text had returned before it (at)
    arr,     \* per default header key: the cells of the backing array of its
             \* value slice beyond the slice's length (cap - len of them)
    view,    \* per caller and default header key: how many of those cells the
             \* value slice in the caller's Target extends over
    arg,     \* the arguments of a function under test
    out      \* what it returned

vars == <<kind, driver, src, nl, ioerr, body, hdr, tgts, sc, mu, rpos, i,
          pc, loc, slot, fin, hist, ra, plog, arr, view, arg, out>>

\* ------------------------------------------------------------------ errors
ErrNil == "nil"
ErrNoTargets == "no targets to attack"
ErrNilTarget == "nil target"
ErrNoMethod == "target: required method is missing"
ErrNoURL == "target: required url is missing"
ErrParse == "parse error"
ErrRead == "read error"
ErrBadTarget == "bad target"
ErrBadMethod == "bad method"
ErrBadURL == "bad URL"
ErrBadHeader == "bad header"
ErrBadBody == "bad body"

\* the value of F at v, with v computed once (a let)
With(v, F(_)) == CHOOSE y \in {F(x) : x \in {v}} : TRUE

\* ----------------------------------------------------------------- strings
Empty == <<>>
IsSpace(ch) == ch \in {" ", "\t"}
IsUpper(ch) == ch \in {"G", "P", "K"}
IsLetter(ch) == IsUpper(ch) \/ ch \in {"a", "b", "c", "f", "g", "h", "k", "v", "w"}

RECURSIVE TrimLeft(_)
TrimLeft(s) == IF s # Empty /\ IsSpace(Head(s)) THEN TrimLeft(Tail(s)) ELSE s

RECURSIVE TrimRight(_)
TrimRight(s) ==
    IF s # Empty /\ IsSpace(s[Len(s)]) THEN TrimRight(SubSeq(s, 1, Len(s) - 1)) ELSE s

\* strings.TrimSpace
TrimSpace(s) == TrimRight(TrimLeft(s))

\* strings.HasPrefix(s, ch) for a one-character prefix
HasPrefix(s, ch) == s # Empty /\ Head(s) = ch

\* strings.SplitN(s, sep, 2) for a one-character separator
SplitN(s, sep) ==
    IF \E n \in 1..Len(s) : s[n] = sep
    THEN LET n == CHOOSE n \in 1..Len(s) : s[n] = sep /\ \A m \in 1..(n - 1) : s[m] # sep
         IN  <<SubSeq(s, 1, n - 1), SubSeq(s, n + 1, Len(s))>>
    ELSE <<s>>

\* httpMethodChecker: ^[A-Z]+\s
startsWithHTTPMethod(t) ==
    \E n \in 1..Len(t) :
        /\ n + 1 <= Len(t)
        /\ \A m \in 1..n : IsUpper(t[m])
        /\ IsSpace(t[n + 1])

\* url.ParseRequestURI succeeds: "*", an absolute path, or a URI with a scheme
ParseRequestURI(u) ==
    /\ u # Empty
    /\ \/ u = <<"*">>
       \/ Head(u) = "/"
       \/ \E n \in 2..Len(u) : u[n] = ":" /\ \A m \in 1..(n - 1) : IsLetter(u[m])

\* ----------------------------------------------------------------- targets
ZeroTarget == [Method |-> Empty, URL |-> Empty, Body |-> Empty, Header |-> <<>>]

\* faulty variant: the key's values are replaced (tgt.Header[k] = vs)
HeaderReplace(h, k, vs) == [x \in (DOMAIN h) \cup {k} |-> IF x = k THEN vs ELSE h[x]]

\* A *Target: addr 0 is nil, val is the Target at a non-nil address.
Ptr(a, v) == [addr |-> a, val |-> v]

\* Target.Equal, lines 50-80
Equal(t, other) ==
    IF t.addr = other.addr THEN TRUE
    ELSE IF t.addr = 0 \/ other.addr = 0 THEN FALSE
    ELSE LET equal == /\ t.val.Method = other.val.Method
                      /\ t.val.URL = other.val.URL
                      /\ t.val.Body = other.val.Body
                      /\ Cardinality(DOMAIN t.val.Header) =
                            Cardinality(DOMAIN other.val.Header)
         IN  IF ~equal THEN FALSE
             ELSE \A k \in DOMAIN t.val.Header :
                    LET left == t.val.Header[k]
                        right == IF k \in DOMAIN other.val.Header
                                 THEN other.val.Header[k] ELSE <<>>
                    IN  /\ Len(left) = Len(right)
                        /\ \A j \in 1..Len(left) : left[j] = right[j]

\* tgt.Header[k] = append(tgt.Header[k], vs...)
HeaderAppend(h, k, vs) ==
    [x \in (DOMAIN h) \cup {k} |->
        IF x = k THEN (IF k \in DOMAIN h THEN h[k] ELSE <<>>) \o vs ELSE h[x]]

\* for k, vs := range from { to[k] = append(to[k], vs...) }
HeaderMerge(to, from) ==
    [x \in (DOMAIN to) \cup (DOMAIN from) |->
        (IF x \in DOMAIN to THEN to[x] ELSE <<>>) \o
        (IF x \in DOMAIN from THEN from[x] ELSE <<>>)]

\* A default header value hdr[k] is a slice over a backing array that may be
\* longer than the slice.  Line 303 stores that slice in the target, so the
\* append of line 343 writes into the array while it has room and moves the
\* target's values to an array of their own once it has not.
\* Spill(r): the cells after the call that returned r.
Spill(r) ==
    IF r.at = 0 THEN arr
    ELSE [k \in DOMAIN arr |->
            LET app == SubSeq(r.tgt.Header[k], Len(hdr[k]) + 1, Len(r.tgt.Header[k]))
            IN  [j \in 1..Len(arr[k]) |-> IF j <= Len(app) THEN app[j] ELSE arr[k][j]]]

\* Views(r): the cells the value slices of the target of r extend over.
Views(r) ==
    [k \in DOMAIN arr |->
        LET n == Len(r.tgt.Header[k]) - Len(hdr[k])
        IN  IF n <= Len(arr[k]) THEN n ELSE 0]

\* Deref(c): the Target of caller c as memory holds it now: a value slice that
\* extends over cells of a default's backing array shows what they hold.
Deref(c) ==
    LET h == slot[c].Header
    IN  [slot[c] EXCEPT !.Header =
            [k \in DOMAIN h |->
                IF k \in DOMAIN view[c] /\ view[c][k] > 0
                THEN hdr[k] \o SubSeq(arr[k], 1, view[c][k])
                ELSE h[k]]]

\* ---------------------------------------------------------- bufio.Scanner
\* s.pos tokens have been scanned, s.tok is the token Text returns.
\* A source that ends with a read error still delivers the lines read before it.
SrcScan(s) ==
    IF s.pos < Len(src)
    THEN [ok |-> TRUE, s |-> [s EXCEPT !.pos = @ + 1, !.tok = src[s.pos + 1]]]
    ELSE [ok |-> FALSE, s |-> [s EXCEPT !.tok = Empty, !.err = ioerr]]

\* -------------------------------------------------------- peekingScanner
\* faulty variant: the read error of the source is not looked at
ScErrIgnored(s) == FALSE

ScErr(s) == s.err

\* faulty variant: the line looked at is not kept for the next Scan and Text
PeekForgets(s) ==
    LET r == SrcScan(s)
    IN  IF ~r.ok THEN [val |-> Empty, s |-> r.s] ELSE [val |-> r.s.tok, s |-> r.s]

Peek(s) ==
    LET r == SrcScan(s)
    IN  IF ~r.ok THEN [val |-> Empty, s |-> r.s]
        ELSE [val |-> r.s.tok, s |-> [r.s EXCEPT !.peeked = r.s.tok]]

Scan(s) == IF s.peeked = Empty THEN SrcScan(s) ELSE [ok |-> TRUE, s |-> s]

\* faulty variant: Text leaves the looked-at line in the buffer
TextKeepsPeeked(s) ==
    IF s.peeked = Empty THEN [val |-> s.tok, s |-> s]
    ELSE [val |-> s.peeked, s |-> s]

Text(s) ==
    IF s.peeked = Empty THEN [val |-> s.tok, s |-> s]
    ELSE [val |-> s.peeked, s |-> [s EXCEPT !.peeked = Empty]]

NewScanner == [pos |-> 0, tok |-> Empty, peeked |-> Empty, err |-> FALSE]

\* ----------------------------------------------------------- httpTargeter
\* ioutil.ReadFile over the file system the decoder runs in
Files == (<<"f">> :> <<"x">>)
ReadFile(path) ==
    IF path \in DOMAIN Files THEN [ok |-> TRUE, data |-> Files[path]]
    ELSE [ok |-> FALSE, data |-> Empty]

\* faulty variant: a blank line is taken for the end of the source
SkipBlankToEnd(s) ==
    With(Scan(s), LAMBDA r :
        IF ~r.ok THEN [found |-> FALSE, s |-> r.s, line |-> Empty]
        ELSE With(Text(r.s), LAMBDA t :
             With(TrimSpace(t.val), LAMBDA line :
                IF Len(line) # 0
                THEN [found |-> TRUE, s |-> t.s, line |-> line]
                ELSE [found |-> FALSE, s |-> t.s, line |-> Empty])))

\* lines 289-298: scan to the first line that is neither blank nor a comment
RECURSIVE SkipBlank(_)
SkipBlank(s) ==
    With(Scan(s), LAMBDA r :
        IF ~r.ok THEN [found |-> FALSE, s |-> r.s, line |-> Empty]
        ELSE With(Text(r.s), LAMBDA t :
             With(TrimSpace(t.val), LAMBDA line :
                IF Len(line) # 0 /\ line[1] # "#"
                THEN [found |-> TRUE, s |-> t.s, line |-> line]
                ELSE SkipBlank(t.s))))

\* lines 331-343: a header line of the block
HeaderLine(line, tgt) ==
    With(SplitN(line, ":"), LAMBDA tokens :
        IF Len(tokens) < 2 THEN [tgt |-> tgt, err |-> ErrBadHeader]
        ELSE With(<<TrimSpace(tokens[1]), TrimSpace(tokens[2])>>, LAMBDA kv :
                IF kv[1] = Empty \/ kv[2] = Empty
                THEN [tgt |-> tgt, err |-> ErrBadHeader]
                ELSE [tgt |-> [tgt EXCEPT !.Header = HeaderAppend(@, kv[1], <<kv[2]>>)],
                      err |-> ErrNil]))

\* lines 322-348: the header section of a block
RECURSIVE HeaderSection(_, _)
HeaderSection(s, tgt) ==
    With(Scan(s), LAMBDA r :
        IF ~r.ok
        THEN [s |-> r.s, tgt |-> tgt,
              err |-> IF ScErr(r.s) THEN ErrNoTargets ELSE ErrNil]
        ELSE
        With(Text(r.s), LAMBDA t :
        With(TrimSpace(t.val), LAMBDA line :
            IF line = Empty
            THEN [s |-> t.s, tgt |-> tgt,
                  err |-> IF ScErr(t.s) THEN ErrNoTargets ELSE ErrNil]
            ELSE IF HasPrefix(line, "@")
            THEN With(ReadFile(Tail(line)), LAMBDA f :
                    [s |-> t.s, tgt |-> [tgt EXCEPT !.Body = f.data],
                     err |-> IF ~f.ok THEN ErrBadBody
                             ELSE IF ScErr(t.s) THEN ErrNoTargets ELSE ErrNil])
            ELSE With(HeaderLine(line, tgt), LAMBDA h :
                    IF h.err # ErrNil THEN [s |-> t.s, tgt |-> tgt, err |-> h.err]
                    ELSE HeaderSection(t.s, h.tgt)))))

\* faulty variant: the method pattern is tested before the number of tokens
BlockHeadMethodFirst(sk, tgt) ==
    LET t1 == [tgt EXCEPT !.Body = body,
                          !.Header = [k \in DOMAIN hdr |-> hdr[k]]]
        at == sk.s.pos
    IN  With(SplitN(sk.line, " "), LAMBDA tokens :
        IF ~startsWithHTTPMethod(sk.line)
        THEN [s |-> sk.s, tgt |-> t1, err |-> ErrBadMethod, at |-> at]
        ELSE IF Len(tokens) < 2
        THEN [s |-> sk.s, tgt |-> t1, err |-> ErrBadTarget, at |-> at]
        ELSE IF ~ParseRequestURI(tokens[2])
        THEN [s |-> sk.s, tgt |-> [t1 EXCEPT !.Method = tokens[1]],
              err |-> ErrBadURL, at |-> at]
        ELSE
        With([t1 EXCEPT !.Method = tokens[1], !.URL = tokens[2]], LAMBDA t3 :
        With(Peek(sk.s), LAMBDA pk :
        With(TrimSpace(pk.val), LAMBDA line :
            IF line = Empty \/ startsWithHTTPMethod(line)
            THEN [s |-> pk.s, tgt |-> t3, err |-> ErrNil, at |-> at]
            ELSE With(HeaderSection(pk.s, t3), LAMBDA hs :
                    [s |-> hs.s, tgt |-> hs.tgt, err |-> hs.err, at |-> at])))))

\* lines 300-321, once the first line of the block is read (sk)
BlockHead(sk, tgt) ==
    LET t1 == [tgt EXCEPT !.Body = body,
                          !.Header = [k \in DOMAIN hdr |-> hdr[k]]]
        at == sk.s.pos
    IN  With(SplitN(sk.line, " "), LAMBDA tokens :
        IF Len(tokens) < 2
        THEN [s |-> sk.s, tgt |-> t1, err |-> ErrBadTarget, at |-> at]
        ELSE IF ~startsWithHTTPMethod(sk.line)
        THEN [s |-> sk.s, tgt |-> t1, err |-> ErrBadMethod, at |-> at]
        ELSE IF ~ParseRequestURI(tokens[2])
        THEN [s |-> sk.s, tgt |-> [t1 EXCEPT !.Method = tokens[1]],
              err |-> ErrBadURL, at |-> at]
        ELSE
        With([t1 EXCEPT !.Method = tokens[1], !.URL = tokens[2]], LAMBDA t3 :
        With(Peek(sk.s), LAMBDA pk :
        With(TrimSpace(pk.val), LAMBDA line :
            IF line = Empty \/ startsWithHTTPMethod(line)
            THEN [s |-> pk.s, tgt |-> t3, err |-> ErrNil, at |-> at]
            ELSE With(HeaderSection(pk.s, t3), LAMBDA hs :
                    [s |-> hs.s, tgt |-> hs.tgt, err |-> hs.err, at |-> at])))))

\* faulty variant: the defaults of lines 300-304 are written before the scan
\* of lines 289-298
HttpNextDefaultsFirst(s, tgt) ==
    With(SkipBlank(s), LAMBDA sk :
        IF ~sk.found
        THEN [s |-> sk.s,
              tgt |-> [tgt EXCEPT !.Body = body,
                                  !.Header = [k \in DOMAIN hdr |-> hdr[k]]],
              err |-> ErrNoTargets, at |-> 0]
        ELSE BlockHead(sk, tgt))

\* httpTargeter.Next with a non-nil tgt, lines 288-348, run under h.mu.
\* at: the number of the line the block starts at (0 when there is none).
HttpNext(s, tgt) ==
    With(SkipBlank(s), LAMBDA sk :
        IF ~sk.found
        THEN [s |-> sk.s, tgt |-> tgt, err |-> ErrNoTargets, at |-> 0]
        ELSE BlockHead(sk, tgt))

\* ----------------------------------------------------------- jsonTargeter
\* A line of the JSON source: ws for a line of white space only; otherwise a
\* JSON text that either fails to parse (ok = FALSE) or is an object with
\* these fields (an absent field is empty).
JsonLine(ws, ok, m, u, b, h) ==
    [ws |-> ws, ok |-> ok, Method |-> m, URL |-> u, Body |-> b, Header |-> h]

NoData == JsonLine(TRUE, FALSE, Empty, Empty, Empty, <<>>)
EOF == "EOF"

\* d.reader.ReadBytes('\n') with pos lines already read: the final line of a
\* source that does not end with '\n' is returned together with the error.
ReadBytes(pos) ==
    LET end == IF ioerr THEN ErrRead ELSE EOF
    IN  IF pos < Len(src)
        THEN [data |-> src[pos + 1], pos |-> pos + 1,
              err |-> IF pos + 1 < Len(src) \/ nl THEN ErrNil ELSE end]
        ELSE [data |-> NoData, pos |-> pos, err |-> end]

\* bytes.TrimSpace on a line
TrimData(d) == IF d.ws THEN NoData ELSE d

\* lines 138-143, run under d.lock
RECURSIVE ReadLine(_)
ReadLine(pos) ==
    With(ReadBytes(pos), LAMBDA r :
        IF r.err # ErrNil THEN r
        ELSE IF TrimData(r.data) = NoData THEN ReadLine(r.pos)
        ELSE [r EXCEPT !.data = TrimData(r.data)])

\* jsonTarget.decode and jl.Error(), lines 153-156
Decode(data) ==
    IF data.ok
    THEN [err |-> ErrNil,
          t |-> [Method |-> data.Method, URL |-> data.URL,
                 Body |-> data.Body, Header |-> data.Header]]
    ELSE [err |-> ErrParse, t |-> ZeroTarget]

\* (*jsonTarget).encode, line 217: one object; a body or header of length 0
\* is left out, which reads back as empty
EncodeLine(t) == JsonLine(FALSE, TRUE, t.Method, t.URL, t.Body, t.Header)

\* lines 164-180: the fields Next writes into *tgt
JsonFill(tgt, t) ==
    [Method |-> t.Method,
     URL    |-> t.URL,
     Body   |-> IF Len(t.Body) > 0 THEN t.Body ELSE body,
     Header |-> HeaderMerge(HeaderMerge(tgt.Header, hdr), t.Header)]

\* lines 146-182, after the lock is released: r is what ReadLine returned
JsonFinish(r, tgt) ==
    IF r.err # ErrNil
    THEN [tgt |-> tgt, err |-> IF r.err = EOF THEN ErrNoTargets ELSE r.err]
    ELSE With(Decode(r.data), LAMBDA d :
            IF d.err # ErrNil THEN [tgt |-> tgt, err |-> d.err]
            ELSE IF d.t.Method = Empty THEN [tgt |-> tgt, err |-> ErrNoMethod]
            ELSE IF d.t.URL = Empty THEN [tgt |-> tgt, err |-> ErrNoURL]
            ELSE [tgt |-> JsonFill(tgt, d.t), err |-> ErrNil])

\* --------------------------------------------------------- staticTargeter
\* faulty variant: the element after the one the counter selects
StaticPickOffByOne(v) == tgts[((v + 1) % Len(tgts)) + 1]

\* s.tgts[v % len(s.tgts)] for the counter value v the atomic add returned
StaticPick(v) == tgts[(v % Len(tgts)) + 1]

\* ---------------------------------------------------- gnuplot: GroupByMask
GroupByNothing == 0
GroupByName == 2 ^ 1
GroupByStatusCode == 2 ^ 2
GroupByFailure == 2 ^ 3

\* g & b != 0 for a one-bit b
HasBit(g, b) == (g \div b) % 2 = 1

\* fmt.Sprintf("%s:...", r.Attack), or the bare label for an empty name; a
\* series name is the sequence of its parts
Label(attack, bare, suffix) ==
    IF attack = Empty THEN <<bare>> ELSE attack \o <<":", suffix>>

\* GNUPlot.updateResultNameByGroupBy for p.groupBy = g: the new r.Attack
\* and r.Code
updateResultNameByGroupBy(g, r) ==
    IF g = GroupByNothing THEN [Attack |-> <<"All">>, Code |-> r.Code]
    ELSE
    LET a1 == IF ~HasBit(g, GroupByName) THEN <<"All">> ELSE r.Attack
        byCode == HasBit(g, GroupByStatusCode)
        code == IF byCode /\ r.Error # "" THEN 0 ELSE r.Code
        a2 == IF byCode THEN Label(a1, ToString(code), ToString(code)) ELSE a1
        a3 == IF ~HasBit(g, GroupByFailure) THEN a2
              ELSE IF r.Error # "" \/ (code < 200 /\ code > 299)
              THEN Label(a2, "FAILURE", "FAILURE")
              ELSE Label(a2, "OK", "SUCCESS")
    IN  [Attack |-> IF a3 = Empty THEN <<"Series">> ELSE a3, Code |-> code]

\* ------------------------------------------------------------------ inputs
Seqs(S, n) == UNION {[1..m -> S] : m \in 0..n}

\* HTTP-text lines
LGet == <<"G", " ", "/", "a">>
LPost == <<"P", " ", "/", "b">>
LBlank == <<>>
LHeader == <<"k", ":", " ", "v">>
LComment == <<"#", "c">>
LCommentColon == <<"#", "k", ":", "v">>
HttpLines == {LGet, LPost, LBlank, LHeader, LComment, LCommentColon}

\* HTTP-text sources made of blocks with header sections
LHeaderW == <<"k", ":", " ", "w">>
LHeaderUpper == <<"K", ":", " ", "v">>
LAt == <<"@", "f">>
BlockLines == {LGet, LBlank, LHeader, LHeaderW, LHeaderUpper, LAt}
\* a method line first; header and '@' lines only after a method or a header
\* line; no blank line after a blank line
BlockShaped(s) ==
    /\ s # <<>> => s[1] = LGet
    /\ \A p \in 2..Len(s) :
          /\ s[p] \in {LHeader, LHeaderW, LHeaderUpper, LAt} =>
                s[p - 1] \in {LGet, LHeader, LHeaderW, LHeaderUpper}
          /\ s[p] = LBlank => s[p - 1] # LBlank
BlockSources == {s \in Seqs(BlockLines, MaxBlockLines) : BlockShaped(s)}

\* HTTP-text sources with malformed lines
LOneToken == <<"g">>
LLowerMethod == <<"g", " ", "/", "a">>
LTabbed == <<"G", "\t", "/", "a">>
LBadURL == <<"G", " ", "a">>
LNoValue == <<"k", ":">>
LNoKey == <<":", " ", "v">>
ErrLines == {LGet, LBlank, LHeader, LOneToken, LLowerMethod, LTabbed, LBadURL,
             LNoValue, LNoKey}

\* JSON lines
JBlank == JsonLine(TRUE, FALSE, Empty, Empty, Empty, <<>>)
JGet == JsonLine(FALSE, TRUE, <<"G">>, <<"/", "a">>, Empty, <<>>)
JPost == JsonLine(FALSE, TRUE, <<"P">>, <<"/", "b">>, <<"x">>, (<<"k">> :> <<(<<"v">>)>>))
JNoMethod == JsonLine(FALSE, TRUE, Empty, <<"/", "a">>, Empty, <<>>)
JsonLines == {JBlank, JGet, JPost, JNoMethod}

\* JSON sources with malformed lines
JBad == JsonLine(FALSE, FALSE, Empty, Empty, Empty, <<>>)
JNoURL == JsonLine(FALSE, TRUE, <<"G">>, Empty, Empty, <<>>)
JsonErrLines == {JBlank, JGet, JBad, JNoMethod, JNoURL}

\* provider-level defaults: none, or a body and one header value
Defaults ==
    {[body |-> Empty, hdr |-> <<>>],
     [body |-> <<"d">>, hdr |-> (<<"k">> :> <<(<<"1">>)>>)]}

\* targets of a static list
TA == [Method |-> <<"G">>, URL |-> <<"/", "a">>, Body |-> Empty, Header |-> <<>>]
TB == [Method |-> <<"P">>, URL |-> <<"/", "b">>, Body |-> <<"x">>,
       Header |-> (<<"k">> :> <<(<<"v">>)>>)]
StaticLists == Seqs({TA, TB}, MaxList) \ {<<>>}

NoLoc == [data |-> NoData, err |-> ErrNil, at |-> 0, v |-> 0]
NoRA == [pc |-> "off", tgts |-> <<>>, res |-> <<>>, err |-> ErrNil]
NoLog == [phase |-> "off", texts |-> <<>>, peek |-> Empty, avail |-> FALSE, at |-> 0]
NoArg == <<>>
NoOut == [done |-> FALSE]

\* targets compared by Equal
EqKeys == {<<"a">>, <<"b">>}
EqLists == {<<>>, <<(<<"v">>)>>, <<(<<"v">>), (<<"w">>)>>, <<(<<"w">>), (<<"v">>)>>}
EqHeaders == UNION {[K -> EqLists] : K \in SUBSET EqKeys}
EqTargets ==
    [Method : {<<"G">>, <<"P">>}, URL : {<<"/", "a">>, <<"/", "b">>},
     Body : {Empty, <<"x">>}, Header : EqHeaders]
\* two pointers: both nil, one nil, the same Target, or two Targets
EqPairs ==
    {[t |-> Ptr(0, ZeroTarget), other |-> Ptr(0, ZeroTarget)]}
    \cup {[t |-> Ptr(1, v), other |-> Ptr(0, ZeroTarget)] : v \in EqTargets}
    \cup {[t |-> Ptr(0, ZeroTarget), other |-> Ptr(1, v)] : v \in EqTargets}
    \cup {[t |-> Ptr(1, v), other |-> Ptr(1, v)] : v \in EqTargets}
    \cup {[t |-> Ptr(1, v), other |-> Ptr(2, w)] : v \in EqTargets, w \in EqTargets}

\* targets written by the encoder
RtHeaders ==
    {<<>>, (<<"k">> :> <<>>), (<<"k">> :> <<(<<"v">>)>>),
     (<<"k">> :> <<(<<"v">>), (<<"w">>)>>) @@ (<<"K">> :> <<(<<"v">>)>>)}
RtTargets ==
    [Method : {Empty, <<"G">>}, URL : {Empty, <<"/", "a">>},
     Body : {Empty, <<"x">>}, Header : RtHeaders]

\* results added to a report, and the masks NewGNUPlot takes
Codes == {0, 100, 199, 200, 204, 299, 300, 404, 500}
Results == [Attack : {Empty, <<"x">>}, Error : {"", "e"}, Code : Codes]
Masks == {GroupByNothing, GroupByName, GroupByStatusCode, GroupByFailure,
          GroupByName + GroupByStatusCode, GroupByName + GroupByFailure,
          GroupByStatusCode + GroupByFailure,
          GroupByName + GroupByStatusCode + GroupByFailure}

\* ------------------------------------------------------------ construction
\* no provider, no caller of Next: a function is under test
InitFunction ==
    /\ src = <<>> /\ nl = TRUE /\ ioerr = FALSE
    /\ body = Empty /\ hdr = <<>> /\ arr = <<>> /\ tgts = <<>>
    /\ sc = NewScanner /\ rpos = 0 /\ i = -1 /\ plog = NoLog
    /\ pc = [c \in Callers |-> "idle"]
    /\ loc = [c \in Callers |-> NoLoc]
    /\ slot = [c \in Callers |-> ZeroTarget]
    /\ fin = {}
    /\ hist = [c \in Callers |-> <<>>]
    /\ mu = 0
    /\ view = [c \in Callers |-> <<>>]
    /\ driver = "function"
    /\ ra = NoRA
    /\ out = NoOut

\* t.Equal(other) is about to be called
InitEqual == InitFunction /\ kind = "equal" /\ arg \in EqPairs

\* NewJSONTargetEncoder(w) on an empty w, and NewJSONTargeter(w, nil, nil)
\* to read w back: src is what w holds
InitRoundTrip ==
    /\ InitFunction /\ kind = "roundtrip"
    /\ arg = <<>>

\* NewGNUPlot(g), and a result r about to be added
InitGroup ==
    /\ InitFunction /\ kind = "group"
    /\ arg \in [g : Masks, r : Results]

InitCallers ==
    /\ pc = [c \in Callers |-> "idle"]
    /\ loc = [c \in Callers |-> NoLoc]
    /\ slot = [c \in Callers |-> ZeroTarget]
    /\ fin = {}
    /\ hist = [c \in Callers |-> <<>>]
    /\ mu = 0
    /\ view = [c \in Callers |-> <<>>]
    /\ arg = NoArg
    /\ out = NoOut

\* NewHTTPTargeter
NewHTTPTargeter ==
    /\ kind = "http"
    /\ src \in Seqs(HttpLines, MaxLines)
    /\ nl = TRUE
    /\ ioerr \in BOOLEAN
    /\ \E d \in Defaults : body = d.body /\ hdr = d.hdr
    /\ arr \in [DOMAIN hdr -> Seqs({Empty}, MaxSpare)]
    /\ tgts = <<>>
    /\ sc = NewScanner
    /\ rpos = 0
    /\ i = -1
    /\ plog = NoLog

\* NewJSONTargeter
NewJSONTargeter ==
    /\ kind = "json"
    /\ src \in Seqs(JsonLines, MaxLines)
    /\ nl \in BOOLEAN
    /\ ioerr \in BOOLEAN
    /\ (src = <<>> \/ ioerr) => nl
    /\ \E d \in Defaults : body = d.body /\ hdr = d.hdr
    /\ arr = [k \in DOMAIN hdr |-> <<>>]
    /\ tgts = <<>>
    /\ sc = NewScanner
    /\ rpos = 0
    /\ i = -1
    /\ plog = NoLog

\* NewStaticTargeter
NewStaticTargeter ==
    /\ kind = "static"
    /\ src = <<>>
    /\ nl = TRUE
    /\ ioerr = FALSE
    /\ body = Empty
    /\ hdr = <<>>
    /\ arr = <<>>
    /\ tgts \in StaticLists
    /\ sc = NewScanner
    /\ rpos = 0
    /\ i = -1
    /\ plog = NoLog

\* NewHTTPTargeter over a source of blocks, read without a read error
InitBlocks ==
    /\ kind = "http"
    /\ src \in BlockSources
    /\ nl = TRUE
    /\ ioerr = FALSE
    /\ \E d \in Defaults : body = d.body /\ hdr = d.hdr
    /\ arr \in [DOMAIN hdr -> Seqs({Empty}, MaxSpare)]
    /\ tgts = <<>>
    /\ sc = NewScanner
    /\ rpos = 0
    /\ i = -1
    /\ plog = NoLog
    /\ InitCallers
    /\ driver = "workers"
    /\ ra = NoRA

\* NewHTTPTargeter over a source with malformed lines
InitErrors ==
    /\ kind = "http"
    /\ src \in Seqs(ErrLines, MaxLines)
    /\ nl = TRUE
    /\ ioerr = FALSE
    /\ \E d \in Defaults : body = d.body /\ hdr = d.hdr
    /\ arr \in [DOMAIN hdr -> Seqs({Empty}, MaxSpare)]
    /\ tgts = <<>>
    /\ sc = NewScanner
    /\ rpos = 0
    /\ i = -1
    /\ plog = NoLog
    /\ InitCallers
    /\ driver = "workers"
    /\ ra = NoRA

\* NewJSONTargeter over a source with malformed lines
InitMalformed ==
    /\ kind = "json"
    /\ src \in Seqs(JsonErrLines, MaxLines)
    /\ nl \in BOOLEAN
    /\ ioerr = FALSE
    /\ src = <<>> => nl
    /\ \E d \in Defaults : body = d.body /\ hdr = d.hdr
    /\ arr = [k \in DOMAIN hdr |-> <<>>]
    /\ tgts = <<>>
    /\ sc = NewScanner
    /\ rpos = 0
    /\ i = -1
    /\ plog = NoLog
    /\ InitCallers
    /\ driver = "workers"
    /\ ra = NoRA

\* concurrent callers of Next on one targeter
InitHTTP == NewHTTPTargeter /\ InitCallers /\ driver = "workers" /\ ra = NoRA
InitJSON == NewJSONTargeter /\ InitCallers /\ driver = "workers" /\ ra = NoRA
InitStatic == NewStaticTargeter /\ InitCallers /\ driver = "workers" /\ ra = NoRA

\* ReadAllTargets called on a newly built provider
InitReadAll ==
    /\ NewHTTPTargeter \/ NewJSONTargeter \/ NewStaticTargeter
    /\ InitCallers
    /\ driver = "readall"
    /\ ra = [NoRA EXCEPT !.pc = "loop"]

\* ----------------------------------------------------------------- callers
\* The caller passes a fresh Target or the one it passed to its last call.
Pass(c, reuse) == IF reuse THEN slot[c] ELSE ZeroTarget

\* Callers are interchangeable: they are numbered in the order of their
\* first calls.
MayCall(c) ==
    /\ pc[c] = "idle" /\ c \notin fin
    /\ \A b \in Callers : b < c => (hist[b] # <<>> \/ pc[b] # "idle")

Record(c, err, tgt, at) ==
    /\ hist' = [hist EXCEPT ![c] = Append(@, [err |-> err, tgt |-> tgt, at |-> at])]
    /\ fin' = IF err \in {ErrNoTargets, ErrRead} THEN fin \cup {c} ELSE fin

Config == <<kind, driver, src, nl, ioerr, body, hdr, tgts>>

\* faulty variant: the call goes on without waiting for the lock
HttpLockNoWait(c) ==
    /\ kind = "http" /\ driver = "workers"
    /\ MayCall(c)
    /\ \E reuse \in BOOLEAN :
           /\ slot' = [slot EXCEPT ![c] = Pass(c, reuse)]
           /\ view' = [view EXCEPT ![c] = IF reuse THEN @ ELSE <<>>]
    /\ mu' = c
    /\ pc' = [pc EXCEPT ![c] = "locked"]
    /\ UNCHANGED <<Config, sc, rpos, i, loc, fin, hist, ra, plog, arr, arg, out>>

\* httpTargeter.Next, line 281: h.mu.Lock()
HttpLock(c) ==
    /\ kind = "http" /\ driver = "workers"
    /\ MayCall(c) /\ mu = 0
    /\ \E reuse \in BOOLEAN :
           /\ slot' = [slot EXCEPT ![c] = Pass(c, reuse)]
           /\ view' = [view EXCEPT ![c] = IF reuse THEN @ ELSE <<>>]
    /\ mu' = c
    /\ pc' = [pc EXCEPT ![c] = "locked"]
    /\ UNCHANGED <<Config, sc, rpos, i, loc, fin, hist, ra, plog, arr, arg, out>>

\* httpTargeter.Next, lines 284-349, and the deferred h.mu.Unlock()
HttpDecode(c) ==
    /\ kind = "http" /\ pc[c] = "locked" /\ mu = c
    /\ \E r \in {HttpNext(sc, slot[c])} :
           /\ sc' = r.s
           /\ slot' = [slot EXCEPT ![c] = r.tgt]
           /\ arr' = Spill(r)
           /\ view' = [view EXCEPT ![c] = IF r.at = 0 THEN @ ELSE Views(r)]
           /\ Record(c, r.err, r.tgt, r.at)
    /\ mu' = 0
    /\ pc' = [pc EXCEPT ![c] = "idle"]
    /\ UNCHANGED <<Config, rpos, i, loc, ra, plog, arg, out>>

\* faulty variant: the line is read without the lock: a caller that reads
\* while another call has not returned yet reads from where that call read
JsonReadNoLock(c) ==
    /\ kind = "json" /\ driver = "workers"
    /\ MayCall(c) /\ mu = 0
    /\ \E reuse \in BOOLEAN : slot' = [slot EXCEPT ![c] = Pass(c, reuse)]
    /\ \E p \in {rpos} \cup {loc[b].at - 1 : b \in {a \in Callers : pc[a] = "parsing"
                                                          /\ loc[a].at > 0}} :
       \E r \in {ReadLine(p)} :
           /\ rpos' = r.pos
           /\ loc' = [loc EXCEPT ![c] = [data |-> r.data, err |-> r.err,
                                         at |-> r.pos, v |-> 0]]
    /\ mu' = 0
    /\ pc' = [pc EXCEPT ![c] = "parsing"]
    /\ UNCHANGED <<Config, sc, i, fin, hist, ra, plog, arr, view, arg, out>>

\* jsonTargeter.Next, lines 137-144: d.lock.Lock(), read a line,
\* d.lock.Unlock().  The reader is touched only here, under the lock, so the
\* critical section is one step.
JsonRead(c) ==
    /\ kind = "json" /\ driver = "workers"
    /\ MayCall(c) /\ mu = 0
    /\ \E reuse \in BOOLEAN : slot' = [slot EXCEPT ![c] = Pass(c, reuse)]
    /\ \E r \in {ReadLine(rpos)} :
           /\ rpos' = r.pos
           /\ loc' = [loc EXCEPT ![c] = [data |-> r.data, err |-> r.err,
                                         at |-> r.pos, v |-> 0]]
    /\ mu' = 0
    /\ pc' = [pc EXCEPT ![c] = "parsing"]
    /\ UNCHANGED <<Config, sc, i, fin, hist, ra, plog, arr, view, arg, out>>

\* jsonTargeter.Next, lines 146-182: parse the line outside the lock, return
JsonParse(c) ==
    /\ kind = "json" /\ pc[c] = "parsing"
    /\ \E r \in {JsonFinish(loc[c], slot[c])} :
           /\ slot' = [slot EXCEPT ![c] = r.tgt]
           /\ Record(c, r.err, r.tgt, loc[c].at)
    /\ pc' = [pc EXCEPT ![c] = "idle"]
    /\ loc' = [loc EXCEPT ![c] = NoLoc]
    /\ UNCHANGED <<Config, sc, mu, rpos, i, ra, plog, arr, view, arg, out>>

\* faulty variant: a load and a store instead of the atomic add: a caller that starts
\* while another call is between them reads the same counter value
StaticAddUnsynchronised(c) ==
    /\ kind = "static" /\ driver = "workers"
    /\ MayCall(c) /\ i + 1 < MaxCalls
    /\ \E reuse \in BOOLEAN : slot' = [slot EXCEPT ![c] = Pass(c, reuse)]
    /\ i' = IF \E b \in Callers : pc[b] = "copying" THEN i ELSE i + 1
    /\ loc' = [loc EXCEPT ![c] = [NoLoc EXCEPT !.v = i']]
    /\ pc' = [pc EXCEPT ![c] = "copying"]
    /\ UNCHANGED <<Config, sc, mu, rpos, fin, hist, ra, plog, arr, view, arg, out>>

\* staticTargeter.Next, line 236: atomic.AddInt64(&s.i, 1)
StaticAdd(c) ==
    /\ kind = "static" /\ driver = "workers"
    /\ MayCall(c) /\ i + 1 < MaxCalls
    /\ \E reuse \in BOOLEAN : slot' = [slot EXCEPT ![c] = Pass(c, reuse)]
    /\ i' = i + 1
    /\ loc' = [loc EXCEPT ![c] = [NoLoc EXCEPT !.v = i + 1]]
    /\ pc' = [pc EXCEPT ![c] = "copying"]
    /\ UNCHANGED <<Config, sc, mu, rpos, fin, hist, ra, plog, arr, view, arg, out>>

\* staticTargeter.Next, lines 236-237: *tgt = s.tgts[...], return nil
StaticCopy(c) ==
    /\ kind = "static" /\ pc[c] = "copying"
    /\ slot' = [slot EXCEPT ![c] = StaticPick(loc[c].v)]
    /\ Record(c, ErrNil, StaticPick(loc[c].v), loc[c].v)
    /\ pc' = [pc EXCEPT ![c] = "idle"]
    /\ loc' = [loc EXCEPT ![c] = NoLoc]
    /\ UNCHANGED <<Config, sc, mu, rpos, i, ra, plog, arr, view, arg, out>>

\* A caller that saw ErrNoTargets (or a read error) calls Next again all the
\* same.
CallAgain(c) ==
    /\ kind \in {"http", "json"} /\ driver = "workers"
    /\ c \in fin /\ pc[c] = "idle"
    /\ Cardinality({n \in 1..Len(hist[c]) :
                       hist[c][n].err \in {ErrNoTargets, ErrRead}}) <= MaxAgain
    /\ fin' = fin \ {c}
    /\ UNCHANGED <<Config, sc, mu, rpos, i, pc, loc, slot, hist, ra, plog, arr, view,
                   arg, out>>

\* ------------------------------------------------- Next(nil), lines 131,
\* 233 and 284: the caller passes no Target
NilCalls ==
    Cardinality({c \in Callers : pc[c] = "lockednil"}) +
    Cardinality({x \in (Callers \X (1..(MaxLines + MaxCalls + MaxNil + 1))) :
                    x[2] <= Len(hist[x[1]]) /\ hist[x[1]][x[2]].err = ErrNilTarget})

\* httpTargeter.Next(nil), line 281: h.mu.Lock()
HttpLockNil(c) ==
    /\ kind = "http" /\ driver = "workers"
    /\ MayCall(c) /\ mu = 0 /\ NilCalls < MaxNil
    /\ mu' = c
    /\ pc' = [pc EXCEPT ![c] = "lockednil"]
    /\ UNCHANGED <<Config, sc, rpos, i, loc, slot, fin, hist, ra, plog, arr, view,
                   arg, out>>

\* faulty variant: the nil test comes after the first Scan
HttpNilReturnAfterScan(c) ==
    /\ kind = "http" /\ pc[c] = "lockednil" /\ mu = c
    /\ sc' = Scan(sc).s
    /\ Record(c, ErrNilTarget, ZeroTarget, 0)
    /\ mu' = 0
    /\ pc' = [pc EXCEPT ![c] = "idle"]
    /\ UNCHANGED <<Config, rpos, i, loc, slot, ra, plog, arr, view, arg, out>>

\* httpTargeter.Next(nil), lines 284-286 and the deferred h.mu.Unlock()
HttpNilReturn(c) ==
    /\ kind = "http" /\ pc[c] = "lockednil" /\ mu = c
    /\ Record(c, ErrNilTarget, ZeroTarget, 0)
    /\ mu' = 0
    /\ pc' = [pc EXCEPT ![c] = "idle"]
    /\ UNCHANGED <<Config, sc, rpos, i, loc, slot, ra, plog, arr, view, arg, out>>

\* jsonTargeter.Next(nil), lines 131-133: returns before taking the lock
JsonNil(c) ==
    /\ kind = "json" /\ driver = "workers"
    /\ MayCall(c) /\ NilCalls < MaxNil
    /\ Record(c, ErrNilTarget, ZeroTarget, 0)
    /\ UNCHANGED <<Config, sc, mu, rpos, i, pc, loc, slot, ra, plog, arr, view,
                   arg, out>>

\* staticTargeter.Next(nil), lines 233-235: returns before the atomic add
StaticNil(c) ==
    /\ kind = "static" /\ driver = "workers"
    /\ MayCall(c) /\ NilCalls < MaxNil
    /\ Record(c, ErrNilTarget, ZeroTarget, 0)
    /\ UNCHANGED <<Config, sc, mu, rpos, i, pc, loc, slot, ra, plog, arr, view,
                   arg, out>>

\* --------------------------------------------------------- ReadAllTargets
\* The static targeter never returns ErrNoTargets, so over it the loop below
\* has no exit and s.i and tgts grow without end.  To keep that run a cycle of
\* finitely many states, the activation retains the last RAWindow collected
\* targets, and the counter is taken back by two list lengths, which keeps
\* the index s.i % len(s.tgts), once it has passed the list three times;
\* neither is observable by the loop.
RAWindow == MaxLines + MaxList + 1
Retain(s) == IF Len(s) > RAWindow THEN Tail(s) ELSE s
Residue(v) == IF v >= 3 * Len(tgts) THEN v - 2 * Len(tgts) ELSE v

\* tr.Next(&tgt) on a fresh Target by the only caller:
\* [err, tgt, sc, rpos, i, arr]
CallNext ==
    CASE kind = "http" ->
            With(HttpNext(sc, ZeroTarget), LAMBDA r :
                [err |-> r.err, tgt |-> r.tgt, sc |-> r.s, rpos |-> rpos, i |-> i,
                 arr |-> Spill(r)])
      [] kind = "json" ->
            With(ReadLine(rpos), LAMBDA l :
            With(JsonFinish(l, ZeroTarget), LAMBDA r :
                [err |-> r.err, tgt |-> r.tgt, sc |-> sc, rpos |-> l.pos, i |-> i,
                 arr |-> arr]))
      [] kind = "static" ->
            [err |-> ErrNil, tgt |-> StaticPick(i + 1), sc |-> sc, rpos |-> rpos,
             i |-> Residue(i + 1), arr |-> arr]

\* faulty variant: ErrNoTargets does not leave the loop
ReadAllLoopNoBreak ==
    /\ driver = "readall" /\ ra.pc = "loop"
    /\ \E r \in {CallNext} :
           /\ sc' = r.sc /\ rpos' = r.rpos /\ i' = r.i /\ arr' = r.arr
           /\ ra' = IF r.err = ErrNoTargets THEN ra
                    ELSE IF r.err # ErrNil
                    THEN [ra EXCEPT !.pc = "done", !.res = <<>>, !.err = r.err]
                    ELSE [ra EXCEPT !.tgts = Retain(Append(@, r.tgt))]
    /\ UNCHANGED <<Config, mu, pc, loc, slot, fin, hist, plog, view, arg, out>>

\* ReadAllTargets, lines 256-264: one iteration of the loop
ReadAllLoop ==
    /\ driver = "readall" /\ ra.pc = "loop"
    /\ \E r \in {CallNext} :
           /\ sc' = r.sc /\ rpos' = r.rpos /\ i' = r.i /\ arr' = r.arr
           /\ ra' = IF r.err = ErrNoTargets THEN [ra EXCEPT !.pc = "check"]
                    ELSE IF r.err # ErrNil
                    THEN [ra EXCEPT !.pc = "done", !.res = <<>>, !.err = r.err]
                    ELSE [ra EXCEPT !.tgts = Retain(Append(@, r.tgt))]
    /\ UNCHANGED <<Config, mu, pc, loc, slot, fin, hist, plog, view, arg, out>>

\* faulty variant: no targets is a success with an empty list
ReadAllReturnEmpty ==
    /\ driver = "readall" /\ ra.pc = "check"
    /\ ra' = [ra EXCEPT !.pc = "done", !.res = ra.tgts, !.err = ErrNil]
    /\ UNCHANGED <<Config, sc, mu, rpos, i, pc, loc, slot, fin, hist, plog, arr, view, arg, out>>

\* ReadAllTargets, lines 266-270
ReadAllReturn ==
    /\ driver = "readall" /\ ra.pc = "check"
    /\ ra' = IF Len(ra.tgts) = 0
             THEN [ra EXCEPT !.pc = "done", !.res = <<>>, !.err = ErrNoTargets]
             ELSE [ra EXCEPT !.pc = "done", !.res = ra.tgts, !.err = ErrNil]
    /\ UNCHANGED <<Config, sc, mu, rpos, i, pc, loc, slot, fin, hist, plog, arr, view, arg, out>>

\* -------------------------------------------- peekingScanner as it is used
\* The decoder calls Scan, then Text when Scan returned true; it calls Peek
\* only right after a Text, and Scan after a Peek.
InitScanner ==
    /\ kind = "scanner"
    /\ src \in Seqs(HttpLines, MaxLines)
    /\ nl = TRUE
    /\ ioerr = FALSE
    /\ body = Empty
    /\ hdr = <<>>
    /\ arr = <<>>
    /\ tgts = <<>>
    /\ sc = NewScanner
    /\ rpos = 0
    /\ i = -1
    /\ plog = [NoLog EXCEPT !.phase = "idle"]
    /\ InitCallers
    /\ driver = "scanner"
    /\ ra = NoRA

ScScan ==
    /\ kind = "scanner" /\ plog.phase \in {"idle", "text", "peeked"}
    /\ LET r == Scan(sc)
       IN  /\ sc' = r.s
           /\ plog' = [plog EXCEPT !.phase = IF r.ok THEN "scanned" ELSE "end"]
    /\ UNCHANGED <<Config, mu, rpos, i, pc, loc, slot, fin, hist, ra, arr, view, arg, out>>

ScText ==
    /\ kind = "scanner" /\ plog.phase = "scanned"
    /\ LET t == Text(sc)
       IN  /\ sc' = t.s
           /\ plog' = [plog EXCEPT !.phase = "text", !.texts = Append(@, t.val)]
    /\ UNCHANGED <<Config, mu, rpos, i, pc, loc, slot, fin, hist, ra, arr, view, arg, out>>

ScPeek ==
    /\ kind = "scanner" /\ plog.phase = "text"
    /\ LET p == Peek(sc)
       IN  /\ sc' = p.s
           /\ plog' = [plog EXCEPT !.phase = "peeked", !.peek = p.val,
                                   !.avail = sc.pos < Len(src),
                                   !.at = Len(plog.texts)]
    /\ UNCHANGED <<Config, mu, rpos, i, pc, loc, slot, fin, hist, ra, arr, view, arg, out>>

\* -------------------------------------------------------- functions
NotCallers == <<Config, sc, mu, rpos, i, pc, loc, slot, fin, hist, ra, plog, arr, view>>

\* t.Equal(other)
EqualCall ==
    /\ kind = "equal" /\ ~out.done
    /\ out' = [done |-> TRUE, val |-> Equal(arg.t, arg.other)]
    /\ UNCHANGED <<NotCallers, arg>>

\* faulty variant: the object is written without the newline of line 221
EncodeCallNoNewline ==
    /\ kind = "roundtrip" /\ ~out.done /\ Len(arg) < MaxEncoded
    /\ \E t \in RtTargets :
           /\ arg' = Append(arg, t)
           /\ src' = Append(src, EncodeLine(t))
    /\ nl' = FALSE
    /\ UNCHANGED <<kind, driver, ioerr, body, hdr, tgts, sc, mu, rpos, i, pc, loc,
                   slot, fin, hist, ra, plog, arr, view, out>>

\* enc.Encode(t), lines 216-224: the object, '\n', DumpTo(w); arg keeps the
\* targets encoded so far
EncodeCall ==
    /\ kind = "roundtrip" /\ ~out.done /\ Len(arg) < MaxEncoded
    /\ \E t \in RtTargets :
           /\ arg' = Append(arg, t)
           /\ src' = Append(src, EncodeLine(t))
    /\ nl' = TRUE
    /\ UNCHANGED <<kind, driver, ioerr, body, hdr, tgts, sc, mu, rpos, i, pc, loc,
                   slot, fin, hist, ra, plog, arr, view, out>>

\* Next(&tgt) on a new Target, by the only reader of w, lines 130-183; out
\* keeps the results
DecodeCall ==
    /\ kind = "roundtrip" /\ arg # <<>>
    /\ (IF out.done THEN Len(out.res) ELSE 0) <= Len(arg)
    /\ \E l \in {ReadLine(rpos)} :
       \E r \in {JsonFinish(l, ZeroTarget)} :
           /\ rpos' = l.pos
           /\ out' = [done |-> TRUE,
                      res |-> Append(IF out.done THEN out.res ELSE <<>>,
                                     [err |-> r.err, tgt |-> r.tgt])]
    /\ UNCHANGED <<Config, sc, mu, i, pc, loc, slot, fin, hist, ra, plog, arr, view,
                   arg>>

\* GNUPlot.Add, line 218: p.updateResultNameByGroupBy(r)
GroupCall ==
    /\ kind = "group" /\ ~out.done
    /\ out' = [done |-> TRUE, val |-> updateResultNameByGroupBy(arg.g, arg.r)]
    /\ UNCHANGED <<NotCallers, arg>>

\* ---------------------------------------------------------- specifications
NextHTTP == \E c \in Callers : HttpLock(c) \/ HttpDecode(c)
NextJSON == \E c \in Callers : JsonRead(c) \/ JsonParse(c)
NextStatic == \E c \in Callers : StaticAdd(c) \/ StaticCopy(c)
NextReadAll == ReadAllLoop \/ ReadAllReturn
NextScanner == ScScan \/ ScText \/ ScPeek
NextAgain == \E c \in Callers : CallAgain(c)
NextNil ==
    \E c \in Callers :
        HttpLockNil(c) \/ HttpNilReturn(c) \/ JsonNil(c) \/ StaticNil(c)

Init == InitHTTP \/ InitJSON \/ InitStatic \/ InitReadAll \/ InitScanner
            \/ InitBlocks \/ InitErrors \/ InitMalformed \/ InitEqual \/ InitRoundTrip \/ InitGroup
Next == NextHTTP \/ NextJSON \/ NextStatic \/ NextReadAll \/ NextScanner
            \/ NextNil \/ NextAgain \/ EqualCall \/ EncodeCall \/ DecodeCall \/ GroupCall

Spec == Init /\ [][Next]_vars
SpecHTTP == InitHTTP /\ [][NextHTTP]_vars
SpecJSON == InitJSON /\ [][NextJSON]_vars
SpecStatic == InitStatic /\ [][NextStatic]_vars
SpecStream == (InitHTTP \/ InitJSON) /\ [][NextHTTP \/ NextJSON]_vars
SpecScanner == InitScanner /\ [][NextScanner]_vars
SpecBlocks == InitBlocks /\ [][NextHTTP]_vars
SpecErrors == InitErrors /\ [][NextHTTP]_vars
SpecEqual == InitEqual /\ [][EqualCall]_vars
SpecGroup == InitGroup /\ [][GroupCall]_vars
SpecRoundTrip == InitRoundTrip /\ [][EncodeCall \/ DecodeCall]_vars
\* callers that pass a Target or nil, on a provider without defaults whose
\* source has no read error
InitNil == (InitHTTP \/ InitJSON \/ InitStatic) /\ ~ioerr /\ DOMAIN hdr = {}
SpecNil == InitNil /\ [][NextHTTP \/ NextJSON \/ NextStatic \/ NextNil]_vars
\* callers of a stream-backed targeter that go on calling after ErrNoTargets
SpecAfterEnd == (InitHTTP \/ InitJSON) /\ [][NextHTTP \/ NextJSON \/ NextAgain]_vars
\* callers of a stream-backed targeter over a source with malformed lines
SpecMalformed == (InitErrors \/ InitMalformed) /\ [][NextHTTP \/ NextJSON]_vars
\* callers of a stream-backed targeter whose source may hold malformed lines
\* or end with a read error
SpecFailing == (InitErrors \/ InitHTTP \/ InitJSON) /\ [][NextHTTP \/ NextJSON]_vars
SpecReadAll == InitReadAll /\ [][NextReadAll]_vars
\* ReadAllTargets runs on its caller's thread, which keeps being scheduled
FairReadAll == SpecReadAll /\ WF_vars(NextReadAll)

\* ============================================================== properties
\* the completed Next calls: <<caller, number of the call>>
Calls == {<<c, n>> : c \in Callers, n \in 1..MaxLines + NumCallers + MaxCalls}
Done == {x \in Calls : x[2] <= Len(hist[x[1]])}
Res(x) == hist[x[1]][x[2]]
Quiet == \A c \in Callers : pc[c] = "idle"
AllStopped == Quiet /\ fin = Callers

\* --- the grammar of the HTTP-text format
IsBlankLine(l) == TrimSpace(l) = Empty
IsCommentLine(l) == HasPrefix(TrimSpace(l), "#")
IsMethodLine(l) ==
    LET t == TrimSpace(l)
    IN  /\ startsWithHTTPMethod(t)
        /\ Len(SplitN(t, " ")) = 2
        /\ ParseRequestURI(SplitN(t, " ")[2])
IsHeaderLine(l) ==
    LET t == TrimSpace(l)
        kv == SplitN(t, ":")
    IN  /\ ~IsBlankLine(l) /\ ~IsCommentLine(l) /\ ~startsWithHTTPMethod(t)
        /\ ~HasPrefix(t, "@")
        /\ Len(kv) = 2 /\ TrimSpace(kv[1]) # Empty /\ TrimSpace(kv[2]) # Empty

\* the header section that starts at line p, comments skipped
RECURSIVE RefHeaders(_, _)
RefHeaders(p, h) ==
    IF p > Len(src) THEN h
    ELSE IF IsCommentLine(src[p]) THEN RefHeaders(p + 1, h)
    ELSE IF IsHeaderLine(src[p])
    THEN LET kv == SplitN(TrimSpace(src[p]), ":")
         IN  RefHeaders(p + 1, HeaderAppend(h, TrimSpace(kv[1]), <<TrimSpace(kv[2])>>))
    ELSE h

\* the target the block starting at the method line q describes
RefTarget(q) ==
    LET tk == SplitN(TrimSpace(src[q]), " ")
    IN  [Method |-> tk[1], URL |-> tk[2], Body |-> body,
         Header |-> RefHeaders(q + 1, [k \in DOMAIN hdr |-> hdr[k]])]

\* the nearest line before p that is not a comment, or 0
RECURSIVE Before(_)
Before(p) ==
    IF p <= 1 THEN 0
    ELSE IF IsCommentLine(src[p - 1]) THEN Before(p - 1) ELSE p - 1

\* blocks of a method line and header lines, separated by blank lines; a
\* block without header lines may be followed directly by the next block
WellFormedHttp ==
    /\ kind = "http" /\ ~ioerr
    /\ \A p \in 1..Len(src) :
        \/ IsBlankLine(src[p])
        \/ IsCommentLine(src[p])
        \/ IsMethodLine(src[p]) /\ (Before(p) = 0 \/ ~IsHeaderLine(src[Before(p)]))
        \/ IsHeaderLine(src[p]) /\ Before(p) # 0 /\ ~IsBlankLine(src[Before(p)])
HttpBlocks == {q \in 1..Len(src) : IsMethodLine(src[q])}
NoComments == \A p \in 1..Len(src) : ~IsCommentLine(src[p])

\* --- the grammar of the JSON format
IsJsonTarget(l) == ~l.ws /\ l.ok /\ l.Method # Empty /\ l.URL # Empty
WellFormedJson ==
    /\ kind = "json" /\ ~ioerr
    /\ \A p \in 1..Len(src) : src[p].ws \/ IsJsonTarget(src[p])
JsonBlocks == {q \in 1..Len(src) : IsJsonTarget(src[q])}
JsonRefTarget(q) ==
    [Method |-> src[q].Method, URL |-> src[q].URL,
     Body |-> IF src[q].Body # Empty THEN src[q].Body ELSE body,
     Header |-> HeaderMerge([k \in DOMAIN hdr |-> hdr[k]], src[q].Header)]

\* C1: for the JSON and the HTTP-text decoder over a source of M well-formed
\* blocks/lines and N <= M concurrent callers, once every caller has seen
\* ErrNoTargets the successful calls are in one-to-one correspondence with the
\* M blocks, each call returning its block's target, and no call failed
\* otherwise.
ExactlyOnce(blocks, ref(_)) ==
    /\ \A x \in Done : Res(x).err \in {ErrNil, ErrNoTargets}
    /\ \A q \in blocks :
         Cardinality({x \in Done : Res(x).err = ErrNil /\ Res(x).at = q}) = 1
    /\ \A x \in Done : Res(x).err = ErrNil =>
         Res(x).at \in blocks /\ Res(x).tgt = ref(Res(x).at)
C1_EachBlockOnce ==
    /\ (WellFormedHttp /\ AllStopped /\ NumCallers <= Cardinality(HttpBlocks))
         => ExactlyOnce(HttpBlocks, RefTarget)
    /\ (WellFormedJson /\ AllStopped /\ NumCallers <= Cardinality(JsonBlocks))
         => ExactlyOnce(JsonBlocks, JsonRefTarget)

\* C2: JSON decoder, one caller, a source of well-formed target lines and
\* blank lines: the n-th call returns the target of the n-th non-blank line,
\* the final line included when it has no newline, and the calls after the
\* last non-blank line return ErrNoTargets.
SingleCaller == \A c \in Callers \ {1} : hist[c] = <<>> /\ pc[c] = "idle"
Nth(S, n) == CHOOSE q \in S : Cardinality({r \in S : r < q}) = n - 1
C2_JsonLineByLine ==
    (WellFormedJson /\ SingleCaller) =>
        \A n \in 1..Len(hist[1]) :
            LET e == hist[1][n]
            IN  IF n <= Cardinality(JsonBlocks)
                THEN /\ e.err = ErrNil
                     /\ e.at = Nth(JsonBlocks, n)
                     /\ e.tgt.Method = src[e.at].Method
                     /\ e.tgt.URL = src[e.at].URL
                ELSE e.err = ErrNoTargets

\* C3: HTTP-text decoder: a call that read a valid method/URL line at line p
\* whose following line is absent, blank or matches the method pattern
\* succeeds with the provider's default body and headers; a following line
\* that matches the method pattern is not consumed: it is pending in the
\* scanner, or a call has decoded it as the first line of its own block.
NoSection(p) ==
    \/ p = Len(src)
    \/ IsBlankLine(src[p + 1])
    \/ startsWithHTTPMethod(TrimSpace(src[p + 1]))
C3_LookAhead ==
    kind = "http" =>
    \A x \in Done :
        LET p == Res(x).at
        IN  (p > 0 /\ IsMethodLine(src[p]) /\ NoSection(p)) =>
                /\ Res(x).err = ErrNil
                /\ Res(x).tgt.Body = body
                /\ Res(x).tgt.Header = hdr
                /\ (p < Len(src) /\ startsWithHTTPMethod(TrimSpace(src[p + 1]))) =>
                      \/ sc.pos = p + 1 /\ sc.peeked = src[p + 1]
                      \/ \E y \in Done : Res(y).at = p + 1
C3_Witness ==
    /\ kind = "http"
    /\ \E x, y \in Done :
          /\ Res(x).err = ErrNil /\ Res(y).err = ErrNil
          /\ Res(x).at > 0 /\ Res(y).at = Res(x).at + 1

\* C4: peeking scanner, used as the decoder uses it: at most one line is
\* buffered ahead, the lines Text returns are the lines of the source in
\* order, none skipped or repeated, and the Text after a Peek that had a line
\* to look at (an empty one included) returns the line Peek returned.
C4_PeekThenText ==
    kind = "scanner" =>
        /\ sc.pos <= Len(plog.texts) + 1
        /\ plog.texts = SubSeq(src, 1, Len(plog.texts))
        /\ (plog.avail /\ Len(plog.texts) > plog.at) =>
              plog.texts[plog.at + 1] = plog.peek

\* C5: HTTP-text decoder: comment lines are skipped wherever they occur: over
\* a source that is well formed once its comments are removed, no call fails
\* (other than with ErrNoTargets) and each call returns the target of its
\* block, whose headers come from the block's header lines only.
C5_CommentsSkipped ==
    WellFormedHttp =>
        \A x \in Done :
            /\ Res(x).err \in {ErrNil, ErrNoTargets}
            /\ Res(x).err = ErrNil =>
                  Res(x).at \in HttpBlocks /\ Res(x).tgt = RefTarget(Res(x).at)

\* C6: static decoder, one caller, a list of L >= 1 targets: the k-th call
\* takes the counter value k - 1 and returns the element at index
\* (k - 1) mod L; no call returns an error.
C6_RoundRobin ==
    kind = "static" =>
        /\ \A x \in Done : Res(x).err = ErrNil
        /\ SingleCaller =>
              \A k \in 1..Len(hist[1]) :
                  /\ hist[1][k].at = k - 1
                  /\ hist[1][k].tgt = tgts[((k - 1) % Len(tgts)) + 1]
C6_Witness ==
    /\ kind = "static" /\ SingleCaller
    /\ Len(tgts) >= 2 /\ tgts[1] # tgts[2]
    /\ Len(hist[1]) > Len(tgts)

\* C7: static decoder, concurrent callers: no two calls, completed or in
\* flight, took the same counter value; when all T calls made have returned,
\* their counter values are exactly 0..T-1 and each returned the element at
\* its value mod L; no step changes the backing list.
Taken == {Res(x).at : x \in Done} \cup {loc[c].v : c \in {b \in Callers : pc[b] = "copying"}}
C7_DistinctValues ==
    kind = "static" =>
        /\ Cardinality(Taken) =
              Cardinality(Done) + Cardinality({c \in Callers : pc[c] = "copying"})
        /\ \A x \in Done : Res(x).tgt = tgts[(Res(x).at % Len(tgts)) + 1]
        /\ Quiet => {Res(x).at : x \in Done} = 0..(Cardinality(Done) - 1)
C7_NoSharedCounter == [](C7_DistinctValues) /\ [][tgts' = tgts]_vars
C7_Witness ==
    /\ kind = "static" /\ Quiet
    /\ \A c \in Callers : hist[c] # <<>>
    /\ Cardinality(Done) > Len(tgts)
    /\ \E x, y \in Done : x[1] < y[1] /\ Res(y).at < Res(x).at

\* C8 as claimed: ReadAllTargets terminates over every built-in provider.
C8_Terminates == <>(ra.pc = "done")

\* C8 as amended: ReadAllTargets terminates, with a list or an error, over
\* the JSON and the HTTP-text provider; over the static round-robin provider
\* it never returns.
C8_StreamsTerminate ==
    /\ kind \in {"json", "http"} => <>(ra.pc = "done")
    /\ [](kind = "static" => ra.pc # "done")
C8_Witness ==
    /\ driver = "readall" /\ kind \in {"json", "http"}
    /\ ra.pc = "done" /\ ra.err = ErrNil /\ Len(ra.res) >= 2

\* what successive Next calls on a newly built stream decoder produce, up to
\* the first error: the targets, and that error
RECURSIVE Drain(_, _, _)
Drain(s, pos, acc) ==
    IF kind = "http"
    THEN With(HttpNext(s, ZeroTarget), LAMBDA r :
            IF r.err = ErrNil THEN Drain(r.s, pos, Append(acc, r.tgt))
            ELSE [tgts |-> acc, err |-> r.err])
    ELSE With(ReadLine(pos), LAMBDA l :
         With(JsonFinish(l, ZeroTarget), LAMBDA r :
            IF r.err = ErrNil THEN Drain(s, l.pos, Append(acc, r.tgt))
            ELSE [tgts |-> acc, err |-> r.err]))

\* C9: ReadAllTargets returns the targets of the successive Next calls, in
\* order, up to the first ErrNoTargets; an error other than ErrNoTargets is
\* returned with no targets; ErrNoTargets before any target is returned as
\* ErrNoTargets, not as an empty list.
C9_ReadAllResult ==
    (driver = "readall" /\ kind \in {"json", "http"} /\ ra.pc = "done") =>
        LET d == Drain(NewScanner, 0, <<>>)
        IN  IF d.err # ErrNoTargets THEN ra.err = d.err /\ ra.res = <<>>
            ELSE IF d.tgts = <<>> THEN ra.err = ErrNoTargets /\ ra.res = <<>>
            ELSE ra.err = ErrNil /\ ra.res = d.tgts
C9_Witness ==
    /\ driver = "readall" /\ ra.pc = "done"
    /\ ra.err \notin {ErrNil, ErrNoTargets}
    /\ ra.tgts # <<>> /\ ra.res = <<>>

\* C10: JSON decoder: after a successful Next, whatever the Target passed in
\* held, its header holds for each key the provider's default values followed
\* by the object's values and nothing else, and its body is the object's body
\* if that is not empty and the provider's default body otherwise.
C10_JsonHeaders ==
    kind = "json" =>
        \A x \in Done :
            Res(x).err = ErrNil =>
                /\ Res(x).tgt.Header = JsonRefTarget(Res(x).at).Header
                /\ Res(x).tgt.Body = JsonRefTarget(Res(x).at).Body

\* C11: HTTP-text decoder, a block whose method line q is followed by header
\* lines 'K: V' up to the first blank line, the first line starting with '@'
\* or the end of the source (e): the call succeeds; its target holds under
\* each key, case kept, the provider's default values for that key followed
\* by the values of the block's lines with that key in source order; none of
\* the lines up to e starts a block of another call.
SectionEnd(q) ==
    LET ends == {p \in (q + 1)..Len(src) :
                    IsBlankLine(src[p]) \/ HasPrefix(TrimSpace(src[p]), "@")}
    IN  IF ends = {} THEN Len(src) + 1
        ELSE CHOOSE p \in ends : \A r \in ends : p <= r
KeyOf(l) == TrimSpace(SplitN(TrimSpace(l), ":")[1])
ValueOf(l) == TrimSpace(SplitN(TrimSpace(l), ":")[2])
SectionValues(q, e, k) ==
    LET ls == SelectSeq(SubSeq(src, q + 1, e - 1), LAMBDA l : KeyOf(l) = k)
    IN  (IF k \in DOMAIN hdr THEN hdr[k] ELSE <<>>) \o [j \in 1..Len(ls) |-> ValueOf(ls[j])]
SectionHeaders(q, e) ==
    [k \in (DOMAIN hdr) \cup {KeyOf(src[p]) : p \in (q + 1)..(e - 1)} |->
        SectionValues(q, e, k)]
C11_HeaderSection ==
    (kind = "http" /\ ~ioerr) =>
        \A x \in Done :
            LET q == Res(x).at
                e == SectionEnd(q)
            IN  (q > 0 /\ IsMethodLine(src[q])
                    /\ \A p \in (q + 1)..(e - 1) : IsHeaderLine(src[p])) =>
                    /\ Res(x).err = ErrNil
                    /\ Res(x).tgt.Header = SectionHeaders(q, e)
                    /\ Res(x).tgt.Body =
                          (IF e <= Len(src) /\ ~IsBlankLine(src[e])
                           THEN Files[Tail(TrimSpace(src[e]))] ELSE body)
                    /\ \A y \in Done : Res(y).at \notin (q + 1)..e
C11_Witness ==
    /\ kind = "http" /\ ~ioerr
    /\ \E x \in Done :
          /\ Res(x).err = ErrNil
          /\ {<<"k">>, <<"K">>} \subseteq DOMAIN Res(x).tgt.Header
          /\ Res(x).tgt.Header[<<"k">>] = <<(<<"1">>), (<<"v">>), (<<"w">>)>>

\* C12: HTTP-text decoder, the error of a call whose block starts at line q.
\* First line: fewer than two space-separated tokens is 'bad target', also
\* when the method pattern fails too; else no capitals followed by white space
\* at its start is 'bad method'; else a URL token that is not an absolute
\* request URI is 'bad URL'.  Header section: the first line before a blank
\* or '@' line that has no colon, or an empty key or value, is 'bad header'.
\* The call that returns the error is the one that read the offending line:
\* the scanner stands on that line when it returns.
FirstLineError(l) ==
    LET t == TrimSpace(l)
        tk == SplitN(t, " ")
    IN  IF Len(tk) < 2 THEN ErrBadTarget
        ELSE IF ~startsWithHTTPMethod(t) THEN ErrBadMethod
        ELSE IF ~ParseRequestURI(tk[2]) THEN ErrBadURL
        ELSE ErrNil
BadHeaderLine(l) ==
    LET kv == SplitN(TrimSpace(l), ":")
    IN  Len(kv) < 2 \/ TrimSpace(kv[1]) = Empty \/ TrimSpace(kv[2]) = Empty
\* the line the header section of the block at q stops at, or 0
SectionStop(q) ==
    LET stops == {p \in (q + 1)..Len(src) :
                     \/ IsBlankLine(src[p])
                     \/ HasPrefix(TrimSpace(src[p]), "@")
                     \/ BadHeaderLine(src[p])}
    IN  IF q = Len(src) \/ startsWithHTTPMethod(TrimSpace(src[q + 1])) \/ stops = {}
        THEN 0
        ELSE CHOOSE p \in stops : \A r \in stops : p <= r
\* the offending line of the block at q and its error, [line |-> 0] if none
Offence(q) ==
    IF FirstLineError(src[q]) # ErrNil
    THEN [line |-> q, err |-> FirstLineError(src[q])]
    ELSE LET p == SectionStop(q)
         IN  IF p # 0 /\ ~IsBlankLine(src[p]) /\ ~HasPrefix(TrimSpace(src[p]), "@")
             THEN [line |-> p, err |-> ErrBadHeader]
             ELSE [line |-> 0, err |-> ErrNil]
FormatErrors == {ErrBadTarget, ErrBadMethod, ErrBadURL, ErrBadHeader}
C12_Taxonomy ==
    (kind = "http" /\ ~ioerr) =>
        \A x \in Done : Res(x).at > 0 => Res(x).err = Offence(Res(x).at).err
C12_ReturnedByReader ==
    \A c \in Callers :
        (kind = "http" /\ ~ioerr /\ Len(hist'[c]) > Len(hist[c])
            /\ hist'[c][Len(hist'[c])].err \in FormatErrors) =>
                LET o == Offence(hist'[c][Len(hist'[c])].at)
                IN  /\ sc'.pos = o.line
                    /\ sc.pos < o.line \/ (sc.pos = o.line /\ sc.peeked = src[o.line])
                    /\ sc'.peeked = Empty
C12_ErrorTaxonomy == [](C12_Taxonomy) /\ [][C12_ReturnedByReader]_vars
C12_Witness ==
    /\ kind = "http" /\ ~ioerr
    /\ \E x, y \in Done :
          /\ Res(x).err = ErrBadHeader /\ Res(y).err = ErrBadTarget
          /\ startsWithHTTPMethod(src[Res(y).at])

\* C13: HTTP-text decoder.  A call returns ErrNoTargets, with no block
\* started, exactly when no line that is neither blank nor a comment is left
\* to read, whether the source ended or failed.  A call whose block has a
\* header section that runs into a read error of the source returns
\* ErrNoTargets instead of the block, and ErrNoTargets is returned for a
\* started block in no other case.  No call returns the read error.
Pending(s) ==
    (IF s.peeked # Empty THEN <<s.peeked>> ELSE <<>>) \o SubSeq(src, s.pos + 1, Len(src))
NothingLeft(s) ==
    \A n \in 1..Len(Pending(s)) :
        IsBlankLine(Pending(s)[n]) \/ IsCommentLine(Pending(s)[n])
HasSection(q) ==
    /\ q < Len(src)
    /\ ~IsBlankLine(src[q + 1])
    /\ ~startsWithHTTPMethod(TrimSpace(src[q + 1]))
RunsIntoReadError(q) ==
    /\ ioerr
    /\ FirstLineError(src[q]) = ErrNil
    /\ HasSection(q) /\ SectionStop(q) = 0
C13_Exhausted ==
    \A c \in Callers :
        (kind = "http" /\ Len(hist'[c]) > Len(hist[c])) =>
            LET e == hist'[c][Len(hist'[c])]
            IN  NothingLeft(sc) <=> (e.err = ErrNoTargets /\ e.at = 0)
C13_ReadError ==
    kind = "http" =>
        \A x \in Done :
            /\ Res(x).err # ErrRead
            /\ Res(x).at > 0 =>
                  (Res(x).err = ErrNoTargets <=> RunsIntoReadError(Res(x).at))
Outcome(err, at, tgt) ==
    [err |-> err, at |-> at,
     Method |-> IF err = ErrNil THEN tgt.Method ELSE Empty,
     URL |-> IF err = ErrNil THEN tgt.URL ELSE Empty]
RECURSIVE NthHttp(_, _)
NthHttp(s, n) ==
    With(HttpNext(s, ZeroTarget), LAMBDA r :
        IF n = 1 THEN Outcome(r.err, r.at, r.tgt)
        ELSE NthHttp(r.s, n - 1))
RECURSIVE NthJson(_, _)
NthJson(pos, n) ==
    With(ReadLine(pos), LAMBDA l :
    With(JsonFinish(l, ZeroTarget), LAMBDA r :
        IF n = 1 THEN Outcome(r.err, l.pos, r.tgt)
        ELSE NthJson(l.pos, n - 1)))
NthStatic(n) == Outcome(ErrNil, n - 1, tgts[((n - 1) % Len(tgts)) + 1])
NthValid(n) ==
    CASE kind = "http" -> NthHttp(NewScanner, n)
      [] kind = "json" -> NthJson(0, n)
      [] kind = "static" -> NthStatic(n)
WithTarget(h) == SelectSeq(h, LAMBDA e : e.err # ErrNilTarget)
C14_NilReturn ==
    \A c \in Callers :
        (Len(hist'[c]) > Len(hist[c]) /\ hist'[c][Len(hist'[c])].err = ErrNilTarget) =>
            /\ sc' = sc /\ rpos' = rpos /\ i' = i /\ arr' = arr /\ slot' = slot
            /\ mu' = 0
C14_SameResults ==
    (kind \in {"http", "json", "static"} /\ driver = "workers" /\ SingleCaller) =>
        \A n \in 1..Len(WithTarget(hist[1])) :
            LET e == WithTarget(hist[1])[n]
            IN  NthValid(n) = Outcome(e.err, e.at, e.tgt)
C14_NilTarget == [](C14_SameResults) /\ [][C14_NilReturn]_vars
C14_Witness ==
    /\ kind = "http" /\ SingleCaller /\ Len(hist[1]) = 3
    /\ hist[1][1].err = ErrNil /\ hist[1][2].err = ErrNilTarget
    /\ hist[1][3].err = ErrNil /\ hist[1][3].at = hist[1][1].at + 1

\* C15: no decoder changes a target it has handed out: the Target a caller
\* received from its last successful call, while that caller makes no call,
\* still holds the method, URL, body and header values it was returned with,
\* whatever calls other callers make with their own Targets.
C15_NotMutatedAfterHandOut ==
    \A c \in Callers :
        (pc[c] = "idle" /\ hist[c] # <<>> /\ hist[c][Len(hist[c])].err = ErrNil) =>
            Deref(c) = hist[c][Len(hist[c])].tgt

\* C16: Target.Equal is true exactly when both pointers are nil, or neither
\* is and the two targets have the same method, URL and body and headers with
\* the same keys, each key with the same values in the same order.
SameTargets(a, b) ==
    /\ a.Method = b.Method /\ a.URL = b.URL /\ a.Body = b.Body
    /\ DOMAIN a.Header = DOMAIN b.Header
    /\ \A k \in DOMAIN a.Header : a.Header[k] = b.Header[k]
C16_EqualIffSame ==
    (kind = "equal" /\ out.done) =>
        (out.val <=>
            IF arg.t.addr = 0 \/ arg.other.addr = 0
            THEN arg.t.addr = 0 /\ arg.other.addr = 0
            ELSE SameTargets(arg.t.val, arg.other.val))

C18_FailureSeries ==
    (kind = "group" /\ out.done /\ HasBit(arg.g, GroupByFailure)) =>
        LET name == out.val.Attack
            failed == arg.r.Error # "" \/ arg.r.Code < 200 \/ arg.r.Code > 299
        IN  IF failed THEN name[Len(name)] = "FAILURE"
            ELSE name[Len(name)] \in {"OK", "SUCCESS"}

\* C19: HTTP-text decoder: at most one caller is between the start and the
\* return of the decoding of Next, and it holds the lock; the scanner (its
\* position and its look-ahead buffer) changes only in a step of the holder;
\* every return, with a target or with an error, releases the lock.
Inside == {c \in Callers : pc[c] \in {"locked", "lockednil"}}
C19_OneInside ==
    kind = "http" =>
        /\ Cardinality(Inside) <= 1
        /\ \A c \in Callers : c \in Inside <=> mu = c
C19_UnderLock ==
    kind = "http" =>
        /\ sc' # sc => (mu # 0 /\ pc[mu] = "locked" /\ pc'[mu] = "idle")
        /\ \A c \in Callers : Len(hist'[c]) > Len(hist[c]) => (mu = c /\ mu' = 0)
C19_MutualExclusion == [](C19_OneInside) /\ [][C19_UnderLock]_vars
C19_Witness ==
    /\ kind = "http" /\ mu = 2 /\ pc[2] = "locked"
    /\ \E x, y, z \in Done :
          /\ Res(x).err = ErrNil /\ Res(y).err = ErrNilTarget
          /\ Res(z).err \in {ErrBadMethod, ErrBadHeader, ErrBadTarget}

\* C20 as claimed: JSON decoder: at most one caller at a time is parsing a
\* line.
C20_OneParser ==
    kind = "json" => Cardinality({c \in Callers : pc[c] = "parsing"}) <= 1

\* C20 as amended: JSON decoder: the line cursor only moves forward and no
\* line of the source is obtained by two calls; a line is parsed and
\* validated after the lock is released, so several callers may be parsing at
\* once, each the line it read.
Holders(q) ==
    Cardinality({x \in Done : Res(x).at = q
                                /\ Res(x).err \notin {ErrNoTargets, ErrRead, ErrNilTarget}})
    + Cardinality({c \in Callers : pc[c] = "parsing" /\ loc[c].err = ErrNil
                                    /\ loc[c].at = q})
C20_DisjointLines ==
    kind = "json" =>
        /\ \A q \in 1..Len(src) : Holders(q) <= 1
        /\ \A c \in Callers : pc[c] = "parsing" => mu # c
C20_NoOverlap == [](C20_DisjointLines) /\ [][kind = "json" => rpos' >= rpos]_vars
C20_Witness ==
    /\ kind = "json"
    /\ \A c \in Callers : pc[c] = "parsing" /\ loc[c].err = ErrNil
    /\ loc[1].at # loc[2].at

\* C23: Target.Equal is symmetric: t.Equal(other) returns what
\* other.Equal(t) returns, for nil and non-nil pointers and for headers with
\* as many keys but other keys.
C23_EqualSymmetric ==
    (kind = "equal" /\ out.done) => (out.val <=> Equal(arg.other, arg.t))

\* the call caller c returns from in this step, and its result
Returns(c) == Len(hist'[c]) > Len(hist[c])
Returned(c) == hist'[c][Len(hist'[c])]

\* C24 as claimed: a Next call of the JSON or the HTTP-text decoder that
\* returns ErrNoTargets, a parse or validation error or a format error leaves
\* the caller's Target as it was before the call.
RecordErrors == {ErrNoTargets, ErrParse, ErrNoMethod, ErrNoURL} \cup FormatErrors
                    \cup {ErrBadBody}
MalformedErrors == FormatErrors \cup {ErrBadBody, ErrParse, ErrNoMethod, ErrNoURL}
ConsumedOf(s) == s.pos - (IF s.peeked # Empty THEN 1 ELSE 0)
NextStart(p) ==
    LET S == {q \in (p + 1)..Len(src) : ~IsBlankLine(src[q]) /\ ~IsCommentLine(src[q])}
    IN  IF S = {} THEN 0 ELSE CHOOSE q \in S : \A r \in S : q <= r
JsonNextStart(p) ==
    LET S == {q \in (p + 1)..Len(src) : ~src[q].ws}
    IN  IF S = {} THEN 0 ELSE CHOOSE q \in S : \A r \in S : q <= r
C21_StopsAtOffence ==
    \A c \in Callers :
        (Returns(c) /\ Returned(c).err \in MalformedErrors) =>
            IF kind = "http"
            THEN /\ sc'.pos = Offence(Returned(c).at).line
                 /\ sc'.peeked = Empty
            ELSE /\ rpos' = rpos
                 /\ Returned(c).at = loc[c].at
                 /\ loc[c].data = src[loc[c].at]
                 /\ ~IsJsonTarget(src[loc[c].at])
C21_StartsAtCursor ==
    IF kind = "http"
    THEN /\ \A c \in Callers :
              (Returns(c) /\ Returned(c).err # ErrNilTarget) =>
                  Returned(c).at = NextStart(ConsumedOf(sc))
         /\ ConsumedOf(sc') >= ConsumedOf(sc)
         /\ ConsumedOf(sc') # ConsumedOf(sc) => \E c \in Callers : Returns(c)
    ELSE /\ \A c \in Callers :
              (pc[c] = "idle" /\ pc'[c] = "parsing") =>
                  LET n == JsonNextStart(rpos)
                  IN  IF n = 0 THEN rpos' = Len(src) /\ loc'[c].err # ErrNil
                      ELSE rpos' = n /\ loc'[c].at = n /\ loc'[c].data = src[n]
         /\ rpos' >= rpos
         /\ rpos' # rpos => \E c \in Callers : pc[c] = "idle" /\ pc'[c] = "parsing"
C21_FollowingCall ==
    (kind \in {"http", "json"} /\ SingleCaller) =>
        \A n \in 1..(Len(hist[1]) - 1) :
            hist[1][n].err \in MalformedErrors =>
                IF kind = "http"
                THEN hist[1][n + 1].at = NextStart(Offence(hist[1][n].at).line)
                ELSE LET j == JsonNextStart(hist[1][n].at)
                     IN  hist[1][n + 1].at = (IF j = 0 THEN Len(src) ELSE j)
Exhausted == \E x \in Done : Res(x).err = ErrNoTargets
C22_NothingPending ==
    (kind \in {"http", "json"} /\ Exhausted) =>
        IF kind = "http" THEN sc.pos = Len(src) /\ sc.peeked = Empty
        ELSE rpos = Len(src)
C22_StaysExhausted ==
    (kind \in {"http", "json"} /\ Exhausted) =>
        \A c \in Callers :
            /\ (kind = "http" /\ Returns(c) /\ Returned(c).err # ErrNilTarget) =>
                   (Returned(c).err = ErrNoTargets /\ slot'[c] = slot[c])
            /\ (kind = "json" /\ pc[c] = "idle" /\ pc'[c] = "parsing") =>
                   loc'[c].err = EOF
            /\ (kind = "json" /\ Returns(c) /\ pc[c] = "parsing" /\ loc[c].err = EOF) =>
                   (Returned(c).err = ErrNoTargets /\ slot'[c] = slot[c])
====
